---- MODULE Spec2Model ----
(***************************************************************************)
(* Model of the StudyGuardian backend (backend/src/main.rs): the login     *)
(* route, the require_auth middleware in front of the four protected       *)
(* routes, the two list handlers and the two image handlers, together with *)
(* the capture directory on disk and the wall clock they read.             *)
(*                                                                         *)
(* Option<T> is a sequence: None is <<>>, Some(x) is <<x>>.                *)
(* A path is [abs |-> BOOLEAN, comps |-> sequence of components]; a        *)
(* canonical absolute location is the sequence of its components.          *)
(* Time is in whole seconds, as chrono's timestamp() and jsonwebtoken's    *)
(* get_current_timestamp() report it.                                      *)
(***************************************************************************)
EXTENDS Integers, Sequences, FiniteSets, TLC

VARIABLES state, clock, fs, issued, pc, req, target, resp

vars == <<state, clock, fs, issued, pc, req, target, resp>>

None == <<>>

Some(x) == <<x>>

(***************************************************************************)
(* Bounds of the model.                                                    *)
(***************************************************************************)
\* the clock is observed up to this many minutes after start
MaxMinutes == 3

(***************************************************************************)
(* Configuration: load_settings_multi yields Option<Settings>.             *)
(***************************************************************************)
RelPath(comps) == [abs |-> FALSE, comps |-> comps]

AbsPath(comps) == [abs |-> TRUE, comps |-> comps]

AuthConfigs ==
    { [username |-> None, password |-> None, secret |-> None,
       session_minutes |-> Some(2)],
      [username |-> Some("root"), password |-> Some("pw"),
       secret |-> Some("k1"), session_minutes |-> Some(0)] }

\* The settings files the service may start with: none found, an empty one,
\* and ones that name the capture root and the auth section.
SettingsChoices ==
    { None,
      Some([face_capture |-> None, auth |-> None]) }
    \cup { Some([face_capture |-> Some([root |-> Some(AbsPath(<<"cap">>))]),
                 auth |-> Some(a)]) : a \in AuthConfigs }

repo_root == AbsPath(<<"repo">>)

\* Path::join: an absolute argument replaces the receiver.
Join(base, p) == IF p.abs THEN p ELSE AbsPath(base.comps \o p.comps)

capture_root(settings) ==
    IF settings = None THEN None
    ELSE LET fc  == settings[1].face_capture
             raw == IF fc # None /\ fc[1].root # None
                    THEN fc[1].root[1]
                    ELSE RelPath(<<"data", "captures">>)
         IN  Some(IF raw.abs THEN raw ELSE Join(repo_root, raw))

Max(a, b) == IF a >= b THEN a ELSE b

OrElse(opt, dflt) == IF opt = None THEN dflt ELSE opt[1]

build_auth_settings(settings) ==
    LET config_auth == IF settings = None THEN None ELSE settings[1].auth
        field(f, dflt) == IF config_auth = None THEN dflt
                          ELSE OrElse(config_auth[1][f], dflt)
    IN  [ username        |-> field("username", "admin"),
          password        |-> field("password", "studyguardian"),
          session_minutes |-> Max(field("session_minutes", 5), 1),
          secret          |-> field("secret", "change-me-please") ]

(***************************************************************************)
(* The filesystem.  Static part: /, /cap (the capture root), /etc and the  *)
(* file /etc/s outside the root.  The variable fs holds the nodes the      *)
(* upstream pipeline (or anybody else) rewrites: /cap/a.jpg and /cap/ln.   *)
(***************************************************************************)
Absent == [kind |-> "absent", target |-> <<>>]

File == [kind |-> "file", target |-> <<>>]

Dir == [kind |-> "dir", target |-> <<>>]

Link(t) == [kind |-> "link", target |-> t]

StaticDirs == { <<>>, <<"cap">>, <<"etc">> }

StaticFiles == { <<"etc", "s">> }

\* what each rewritable node may hold
NodeChoices ==
    [ p \in { <<"cap", "a.jpg">>, <<"cap", "ln">> } |->
        IF p = <<"cap", "a.jpg">>
        THEN { File, Absent, Link(<<"etc", "s">>) }
        ELSE { Link(<<"cap", "a.jpg">>), Link(<<"etc", "s">>) } ]

Node(f, p) ==
    IF p \in DOMAIN f THEN f[p]
    ELSE IF p \in StaticDirs THEN Dir
    ELSE IF p \in StaticFiles THEN File
    ELSE Absent

Parent(p) == IF p = <<>> THEN <<>> ELSE SubSeq(p, 1, Len(p) - 1)

\* realpath(3): walk the components from the canonical directory cur,
\* following symbolic links; every component has to exist.
RECURSIVE Resolve(_, _, _)
Resolve(f, cur, rest) ==
    IF rest = <<>> THEN Some(cur)
    ELSE IF Node(f, cur).kind # "dir" THEN None
    ELSE LET c == Head(rest)
             t == Tail(rest)
         IN  IF c = ".." THEN Resolve(f, Parent(cur), t)
             ELSE LET nxt == Append(cur, c)
                      n   == Node(f, nxt)
                  IN  IF n.kind = "absent" THEN None
                      ELSE IF n.kind = "link" THEN Resolve(f, <<>>, n.target \o t)
                      ELSE Resolve(f, nxt, t)

\* Path::canonicalize of an absolute path: Some(canonical location) or None
\* for an io::Error.
canonicalize(f, p) == Resolve(f, <<>>, p.comps)

\* Path::starts_with: component-wise prefix.
starts_with(full, root) ==
    /\ Len(root) <= Len(full)
    /\ SubSeq(full, 1, Len(root)) = root

\* tokio::fs::read of a location: the file it names when it is opened.
ReadFile(f, loc) ==
    LET r == Resolve(f, <<>>, loc)
    IN  IF r # None /\ Node(f, r[1]).kind = "file" THEN r ELSE None

\* (mutation) the prefix test made on the joined path as written, before its
\* '..' segments and links are resolved
sanitize_capture_path_lexical(f, root, candidate) ==
    LET croot == canonicalize(f, root)
    IN  IF croot = None
        THEN [ok |-> FALSE, path |-> <<>>, err |-> "root-unresolved"]
        ELSE LET joined == IF candidate.abs THEN candidate
                           ELSE Join(AbsPath(croot[1]), candidate)
                 full   == canonicalize(f, joined)
             IN  IF full = None
                 THEN [ok |-> FALSE, path |-> <<>>, err |-> "file-unresolved"]
                 ELSE IF ~starts_with(joined.comps, croot[1])
                 THEN [ok |-> FALSE, path |-> <<>>, err |-> "outside-root"]
                 ELSE [ok |-> TRUE, path |-> full[1], err |-> ""]

\* Ok(full) is [ok |-> TRUE, path |-> full]; Err carries which step failed.
sanitize_capture_path(f, root, candidate) ==
    LET croot == canonicalize(f, root)
    IN  IF croot = None
        THEN [ok |-> FALSE, path |-> <<>>, err |-> "root-unresolved"]
        ELSE LET joined == IF candidate.abs THEN candidate
                           ELSE Join(AbsPath(croot[1]), candidate)
                 full   == canonicalize(f, joined)
             IN  IF full = None
                 THEN [ok |-> FALSE, path |-> <<>>, err |-> "file-unresolved"]
                 ELSE IF ~starts_with(full[1], croot[1])
                 THEN [ok |-> FALSE, path |-> <<>>, err |-> "outside-root"]
                 ELSE [ok |-> TRUE, path |-> full[1], err |-> ""]

(***************************************************************************)
(* Session tokens.  A token string is either something that is no JWT at   *)
(* all or an HS256 JWT, which is known by its claims and the secret its    *)
(* signature was made with.                                                *)
(***************************************************************************)
Garbage == [kind |-> "garbage", sub |-> "", iat |-> 0, exp |-> 0, key |-> ""]

\* jsonwebtoken::encode(&Header::default(), &claims, &key)
encode(claims, key) ==
    [kind |-> "jwt", sub |-> claims.sub, iat |-> claims.iat,
     exp |-> claims.exp, key |-> key]

\* Validation::default(): validate_exp = true, leeway = 60 seconds
Leeway == 60

SecondsPerMinute == 60

\* (mutation) exp compared with the current time, no leeway
validate_token_no_leeway(token, auth, now) ==
    IF token.kind # "jwt"
    THEN [ok |-> FALSE, err |-> "malformed"]
    ELSE IF token.key # auth.secret
    THEN [ok |-> FALSE, err |-> "bad-signature"]
    ELSE IF token.exp < now
    THEN [ok |-> FALSE, err |-> "expired"]
    ELSE [ok |-> TRUE, err |-> ""]

\* jsonwebtoken::decode under Validation::default(): the signature is
\* verified first, then exp is compared with the current time less the leeway.
validate_token(token, auth, now) ==
    IF token.kind # "jwt"
    THEN [ok |-> FALSE, err |-> "malformed"]
    ELSE IF token.key # auth.secret
    THEN [ok |-> FALSE, err |-> "bad-signature"]
    ELSE IF token.exp < now - Leeway
    THEN [ok |-> FALSE, err |-> "expired"]
    ELSE [ok |-> TRUE, err |-> ""]

(***************************************************************************)
(* A request.  The Authorization header is Option<[scheme, cred]>: the     *)
(* header text is scheme followed by the credential (None: nothing but     *)
(* blanks follows).  The query string is a sequence of key=value pairs;    *)
(* a value of None is the empty string.                                    *)
(***************************************************************************)
RECURSIVE QueryToken(_)
QueryToken(query) ==
    IF query = <<>> THEN None
    ELSE IF Head(query).key = "token" /\ Head(query).value # None
    THEN Head(query).value
    ELSE QueryToken(Tail(query))

HeaderToken(r) ==
    IF /\ r.authorization # None
       /\ r.authorization[1].scheme = "Bearer "
       /\ r.authorization[1].cred # None
    THEN r.authorization[1].cred
    ELSE None

\* (mutation) the query string looked at before the header
extract_token_query_first(r) ==
    IF QueryToken(r.query) # None THEN QueryToken(r.query) ELSE HeaderToken(r)

extract_token(r) ==
    IF HeaderToken(r) # None THEN HeaderToken(r) ELSE QueryToken(r.query)

\* (mutation) any extracted token lets the request through
require_auth_unvalidated(r, auth, now) ==
    LET token == extract_token(r)
    IN  IF token = None
        THEN [pass |-> FALSE, status |-> 401, token |-> None, stage |-> "missing"]
        ELSE [pass |-> TRUE, status |-> 200, token |-> token, stage |-> "ok"]

\* (mutation) a missing token answered 400 instead of 401
require_auth_telling(r, auth, now) ==
    LET token == extract_token(r)
    IN  IF token = None
        THEN [pass |-> FALSE, status |-> 400, token |-> None, stage |-> "missing"]
        ELSE LET v == validate_token(token[1], auth, now)
             IN  IF ~v.ok
                 THEN [pass |-> FALSE, status |-> 401, token |-> token,
                       stage |-> v.err]
                 ELSE [pass |-> TRUE, status |-> 200, token |-> token,
                       stage |-> "ok"]

\* The middleware's verdict: pass, or the StatusCode it answers with.
require_auth(r, auth, now) ==
    LET token == extract_token(r)
    IN  IF token = None
        THEN [pass |-> FALSE, status |-> 401, token |-> None, stage |-> "missing"]
        ELSE LET v == validate_token(token[1], auth, now)
             IN  IF ~v.ok
                 THEN [pass |-> FALSE, status |-> 401, token |-> token,
                       stage |-> v.err]
                 ELSE [pass |-> TRUE, status |-> 200, token |-> token,
                       stage |-> "ok"]

(***************************************************************************)
(* Responses.  http is what the caller sees; trace records what the        *)
(* request did on the way.                                                 *)
(***************************************************************************)
NoPayload == <<>>

\* a bare StatusCode turned into a response: no body
StatusOnly(status) ==
    [status |-> status, kind |-> "empty", message |-> "", payload |-> NoPayload]

\* ApiError::into_response: the status and {"message": ...}
ApiError(message, status) ==
    [status |-> status, kind |-> "error", message |-> message,
     payload |-> NoPayload]

Ok(kind, payload) ==
    [status |-> 200, kind |-> kind, message |-> "", payload |-> payload]

NoTrace ==
    [at |-> 0, stage |-> "none", token |-> None, handler |-> FALSE,
     db |-> FALSE, files |-> FALSE, sanitize |-> None, read |-> FALSE,
     limit |-> None]

(***************************************************************************)
(* Text that the handlers take apart is a sequence of characters.          *)
(***************************************************************************)
RECURSIVE TrimStart(_)
TrimStart(s) ==
    IF s # <<>> /\ Head(s) = " " THEN TrimStart(Tail(s)) ELSE s

RECURSIVE TrimEnd(_)
TrimEnd(s) ==
    IF s # <<>> /\ s[Len(s)] = " " THEN TrimEnd(SubSeq(s, 1, Len(s) - 1)) ELSE s

\* str::trim
Trim(s) == TrimEnd(TrimStart(s))

\* str::split(','): the pieces between the commas, empty ones included
RECURSIVE SplitComma(_, _)
SplitComma(s, piece) ==
    IF s = <<>> THEN <<piece>>
    ELSE IF Head(s) = "," THEN <<piece>> \o SplitComma(Tail(s), <<>>)
    ELSE SplitComma(Tail(s), Append(piece, Head(s)))

RECURSIVE DropEmpty(_)
DropEmpty(parts) ==
    IF parts = <<>> THEN <<>>
    ELSE IF Head(parts) = <<>> THEN DropEmpty(Tail(parts))
    ELSE <<Head(parts)>> \o DropEmpty(Tail(parts))

parse_reasons(reasons) ==
    IF reasons = None THEN <<>>
    ELSE LET parts == SplitComma(reasons[1], <<>>)
         IN  DropEmpty([i \in 1..Len(parts) |-> Trim(parts[i])])

(***************************************************************************)
(* The two tables, as the upstream pipeline left them.  Columns that the   *)
(* handlers only copy into the response (identity, face_distance,          *)
(* nose_drop, neck_angle) are left out.                                    *)
(***************************************************************************)
FaceRow(id, tag, frame, ts) ==
    [id |-> id, group_tag |-> tag, frame_path |-> frame, timestamp |-> ts]

face_captures ==
    { FaceRow("f1", <<"g">>, Some(RelPath(<<"a.jpg">>)), 5),
      FaceRow("f2", <<"g">>, Some(RelPath(<<"..", "etc", "s">>)), 4),
      FaceRow("f3", <<"h">>, Some(RelPath(<<"ln">>)), 4),
      FaceRow("f4", <<"h">>, Some(AbsPath(<<"etc", "s">>)), 2),
      FaceRow("f5", <<"g">>, None, 1) }

PostureRow(id, bad, reasons, frame, face, ts) ==
    [id |-> id, is_bad |-> bad, reasons |-> reasons, frame_path |-> frame,
     face_capture_id |-> face, timestamp |-> ts]

posture_events ==
    { PostureRow("p1", TRUE, Some(<<"t", ",", " ", ",", " ", "s", ",">>),
                 Some(AbsPath(<<"cap", "a.jpg">>)), None, 5),
      PostureRow("p2", FALSE, None, Some(RelPath(<<"gone.png">>)), Some("f1"), 4),
      PostureRow("p3", TRUE, None, None, Some("zz"), 3),
      PostureRow("p4", FALSE, Some(<<>>), None, None, 3),
      PostureRow("p5", TRUE, None, Some(RelPath(<<"..", "cap", "ln">>)), None, 1) }

Ids == { r.id : r \in face_captures \cup posture_events } \cup { "zz" }

\* ORDER BY timestamp DESC: every order of the rows that is descending in
\* timestamp (rows with equal timestamps come in either order)
RECURSIVE Orders(_)
Orders(rows) ==
    IF rows = {} THEN { <<>> }
    ELSE UNION { { <<x>> \o o : o \in Orders(rows \ {x}) } :
                 x \in { y \in rows : \A z \in rows : y.timestamp >= z.timestamp } }

\* LIMIT n
Take(s, n) == IF Len(s) <= n THEN s ELSE SubSeq(s, 1, n)

Clamp(x, lo, hi) == IF x < lo THEN lo ELSE IF x > hi THEN hi ELSE x

\* fetch_optional(... WHERE id = $1)
FetchById(table, id) ==
    IF \E r \in table : r.id = id
    THEN Some(CHOOSE r \in table : r.id = id)
    ELSE None

(***************************************************************************)
(* The handlers, as functions of the request and of what they read.        *)
(***************************************************************************)
\* (mutation) turned down only when both fields are wrong
login_either_field(payload, auth, now) ==
    IF payload.username # auth.username /\ payload.password # auth.password
    THEN [http |-> ApiError("bad-credentials", 401), token |-> None]
    ELSE LET exp    == now + SecondsPerMinute * Max(auth.session_minutes, 1)
             claims == [sub |-> payload.username, iat |-> now, exp |-> exp]
             token  == encode(claims, auth.secret)
         IN  [http  |-> Ok("login", [token |-> token, expires_at |-> exp,
                                     username |-> payload.username]),
              token |-> Some(token)]

\* POST /api/login.  The 401 message is the source's
\* "wrong username or password" text.
login(payload, auth, now) ==
    IF payload.username # auth.username \/ payload.password # auth.password
    THEN [http |-> ApiError("bad-credentials", 401), token |-> None]
    ELSE LET exp    == now + SecondsPerMinute * Max(auth.session_minutes, 1)
             claims == [sub |-> payload.username, iat |-> now, exp |-> exp]
             token  == encode(claims, auth.secret)
         IN  [http  |-> Ok("login", [token |-> token, expires_at |-> exp,
                                     username |-> payload.username]),
              token |-> Some(token)]

\* (mutation) no upper end
EffectiveLimitUncapped(limit, default) == Max(OrElse(limit, default), 1)

\* params.limit.unwrap_or(default).clamp(1, 200)
EffectiveLimit(limit, default) == Clamp(OrElse(limit, default), 1, 200)

\* format!("/api/{}/{}/image", ...) as the path's segments
ImageUrl(endpoint, id) == <<"api", endpoint, id, "image">>

\* (mutation) the group_tag compared as sent, blanks and all
GroupTagFilterUntrimmed(group_tag) ==
    IF group_tag # None /\ group_tag[1] # <<>> THEN group_tag ELSE None

\* the group_tag filter: trimmed, an empty one dropped
GroupTagFilter(group_tag) ==
    IF group_tag # None /\ Trim(group_tag[1]) # <<>>
    THEN Some(Trim(group_tag[1]))
    ELSE None

FaceCapture(row) ==
    [id |-> row.id, group_tag |-> row.group_tag, timestamp |-> row.timestamp,
     image_url |-> IF row.frame_path # None
                   THEN Some(ImageUrl("face-captures", row.id))
                   ELSE None]

\* GET /api/face-captures: every result the query may return
list_face_captures(params) ==
    LET limit     == EffectiveLimit(params.limit, 40)
        group_tag == GroupTagFilter(params.group_tag)
        matching  == IF group_tag # None
                     THEN { r \in face_captures : r.group_tag = group_tag[1] }
                     ELSE face_captures
    IN  { [http  |-> Ok("faces", [i \in 1..Len(rows) |-> FaceCapture(rows[i])]),
           limit |-> Some(limit)] :
          rows \in { Take(o, limit) : o \in Orders(matching) } }

\* (mutation) the event's own frame first
posture_image_url_own_first(row) ==
    IF row.frame_path # None
    THEN Some(ImageUrl("posture-events", row.id))
    ELSE IF row.face_capture_id # None
    THEN Some(ImageUrl("face-captures", row.face_capture_id[1]))
    ELSE None

\* the linked face capture's image first, the event's own frame second
posture_image_url(row) ==
    IF row.face_capture_id # None
    THEN Some(ImageUrl("face-captures", row.face_capture_id[1]))
    ELSE IF row.frame_path # None
    THEN Some(ImageUrl("posture-events", row.id))
    ELSE None

PostureEvent(row) ==
    [id |-> row.id, is_bad |-> row.is_bad, reasons |-> parse_reasons(row.reasons),
     frame_path |-> row.frame_path, face_capture_id |-> row.face_capture_id,
     timestamp |-> row.timestamp, image_url |-> posture_image_url(row)]

\* GET /api/posture-events: every result the query may return
list_posture_events(params) ==
    LET limit    == EffectiveLimit(params.limit, 50)
        is_bad   == params.is_bad
        matching == IF is_bad # None
                    THEN { r \in posture_events : r.is_bad = is_bad[1] }
                    ELSE posture_events
    IN  { [http  |-> Ok("postures", [i \in 1..Len(rows) |-> PostureEvent(rows[i])]),
           limit |-> Some(limit)] :
          rows \in { Take(o, limit) : o \in Orders(matching) } }

\* An image handler up to the point where it awaits the file read: either it
\* has answered (done) or it holds the sanitized path in target.
ImageStep(done, http, db, files, sanitize, tgt) ==
    [done |-> done, http |-> http, db |-> db, files |-> files,
     sanitize |-> sanitize, target |-> tgt]

\* (mutation) a null frame_path answered 400
image_lookup_null_frame_400(table, notFound, noFrame, id, st, f) ==
    IF st.capture_root = None
    THEN ImageStep(TRUE, ApiError("capture root not configured", 500),
                   FALSE, FALSE, None, <<>>)
    ELSE LET row == FetchById(table, id)
         IN  IF row = None
             THEN ImageStep(TRUE, ApiError(notFound, 404),
                            TRUE, FALSE, None, <<>>)
             ELSE IF row[1].frame_path = None
             THEN ImageStep(TRUE, ApiError(noFrame, 400), TRUE, FALSE, None, <<>>)
             ELSE LET s == sanitize_capture_path(f, st.capture_root[1],
                                                 row[1].frame_path[1])
                  IN  IF ~s.ok
                      THEN ImageStep(TRUE, ApiError(s.err, 400),
                                     TRUE, TRUE, Some(s), <<>>)
                      ELSE ImageStep(FALSE, StatusOnly(0),
                                     TRUE, TRUE, Some(s), s.path)

\* the part the two image handlers have in common
image_lookup(table, notFound, noFrame, id, st, f) ==
    IF st.capture_root = None
    THEN ImageStep(TRUE, ApiError("capture root not configured", 500),
                   FALSE, FALSE, None, <<>>)
    ELSE LET row == FetchById(table, id)
         IN  IF row = None
             THEN ImageStep(TRUE, ApiError(notFound, 404),
                            TRUE, FALSE, None, <<>>)
             ELSE IF row[1].frame_path = None
             THEN ImageStep(TRUE, ApiError(noFrame, 404), TRUE, FALSE, None, <<>>)
             ELSE LET s == sanitize_capture_path(f, st.capture_root[1],
                                                 row[1].frame_path[1])
                  IN  IF ~s.ok
                      THEN ImageStep(TRUE, ApiError(s.err, 400),
                                     TRUE, TRUE, Some(s), <<>>)
                      ELSE ImageStep(FALSE, StatusOnly(0),
                                     TRUE, TRUE, Some(s), s.path)

\* GET /api/face-captures/:id/image, up to the read
get_face_capture_image(id, st, f) ==
    image_lookup(face_captures, "face capture not found",
                 "face capture has no associated frame path", id, st, f)

\* GET /api/posture-events/:id/image, up to the read
get_posture_event_image(id, st, f) ==
    image_lookup(posture_events, "posture event not found",
                 "posture event has no associated frame path", id, st, f)

\* mime_guess::from_path(..).first_or_octet_stream(), for the names in use
mime_guess(path) ==
    LET name == IF path = <<>> THEN "" ELSE path[Len(path)]
    IN  IF name = "a.jpg" THEN "image/jpeg"
        ELSE IF name = "gone.png" THEN "image/png"
        ELSE "application/octet-stream"

\* the rest of an image handler: tokio::fs::read(&target_path) and the reply
read_image(f, target_path) ==
    LET data == ReadFile(f, target_path)
    IN  IF data = None
        THEN ApiError("io-error", 404)
        ELSE Ok("image", [bytes |-> data[1],
                          content_type |-> mime_guess(target_path)])

(***************************************************************************)
(* The state machine.  One request is followed at a time (requests share   *)
(* nothing but the database, the disk and the clock): it is handled        *)
(* (pc "idle" to "done", or to "read" while an image handler awaits the    *)
(* file), its response is looked at in "done", and Deliver hands it over.  *)
(* The clock and the disk move before a request and during the await.      *)
(* Database failures (the handlers' 500 answers to a sqlx error) are left  *)
(* out: the database answers every query.                                  *)
(***************************************************************************)
BlankRequest ==
    [route |-> "", authorization |-> None, query |-> <<>>, id |-> "",
     limit |-> None, group_tag |-> None, is_bad |-> None,
     username |-> "", password |-> ""]

Init ==
    /\ state \in { [capture_root |-> capture_root(s),
                    auth |-> build_auth_settings(s)] : s \in SettingsChoices }
    /\ clock = 0
    /\ fs = [p \in DOMAIN NodeChoices |->
                IF p = <<"cap", "a.jpg">> THEN File ELSE Link(<<"cap", "a.jpg">>)]
    /\ issued = {}
    /\ pc = "idle"
    /\ req = BlankRequest
    /\ target = <<>>
    /\ resp = [http |-> StatusOnly(0), trace |-> NoTrace]

\* issued: the token of the client's latest successful login, if any

\* the instants at which the clock is looked at: around every whole minute
Instants == {0} \cup { SecondsPerMinute * k + d : k \in 1..MaxMinutes, d \in {-1, 0, 1} }

\* time passes
Tick ==
    /\ pc # "done"
    /\ \E t \in Instants : t > clock /\ clock' = t
    /\ UNCHANGED <<state, fs, issued, pc, req, target, resp>>

\* somebody rewrites a node of the capture directory
FsChange ==
    /\ pc # "done"
    /\ \E p \in DOMAIN NodeChoices : \E n \in NodeChoices[p] :
          /\ n # fs[p]
          /\ fs' = [fs EXCEPT ![p] = n]
    /\ UNCHANGED <<state, clock, issued, pc, req, target, resp>>

Reply(r, http, trace) ==
    /\ req' = r
    /\ resp' = [http |-> http, trace |-> trace]
    /\ pc' = "done"
    /\ target' = <<>>

NoResponse == [http |-> StatusOnly(0), trace |-> NoTrace]

\* the response goes out and the request is over
Deliver ==
    /\ pc = "done"
    /\ pc' = "idle"
    /\ req' = BlankRequest
    /\ resp' = NoResponse
    /\ UNCHANGED <<state, clock, fs, issued, target>>

Login(r) ==
    /\ pc = "idle"
    /\ r.route = "login"
    /\ LET out == login(r, state.auth, clock)
       IN  /\ Reply(r, out.http, [NoTrace EXCEPT !.at = clock, !.handler = TRUE])
           /\ issued' = IF out.token = None THEN issued ELSE {out.token[1]}
    /\ UNCHANGED <<state, clock, fs>>

\* what the middleware leaves in the trace
AuthTrace(a) ==
    [NoTrace EXCEPT !.at = clock, !.stage = a.stage, !.token = a.token]

\* a list route behind require_auth
ListRoute(r, outcomes) ==
    /\ pc = "idle"
    /\ LET a == require_auth(r, state.auth, clock)
       IN  IF ~a.pass
           THEN Reply(r, StatusOnly(a.status), AuthTrace(a))
           ELSE \E out \in outcomes :
                  Reply(r, out.http,
                        [AuthTrace(a) EXCEPT !.handler = TRUE, !.db = TRUE,
                                             !.limit = out.limit])
    /\ UNCHANGED <<state, clock, fs, issued>>

ListFaceCaptures(r) ==
    /\ r.route = "face-captures"
    /\ ListRoute(r, list_face_captures(r))

ListPostureEvents(r) ==
    /\ r.route = "posture-events"
    /\ ListRoute(r, list_posture_events(r))

\* an image route behind require_auth, up to the await of the file read
ImageRoute(r, step) ==
    /\ pc = "idle"
    /\ LET a == require_auth(r, state.auth, clock)
       IN  IF ~a.pass
           THEN Reply(r, StatusOnly(a.status), AuthTrace(a))
           ELSE LET trace == [AuthTrace(a) EXCEPT !.handler = TRUE,
                                 !.db = step.db, !.files = step.files,
                                 !.sanitize = step.sanitize]
                IN  IF step.done
                    THEN Reply(r, step.http, trace)
                    ELSE /\ req' = r
                         /\ resp' = [http |-> step.http, trace |-> trace]
                         /\ pc' = "read"
                         /\ target' = step.target
    /\ UNCHANGED <<state, clock, fs, issued>>

GetFaceCaptureImage(r) ==
    /\ r.route = "face-captures-image"
    /\ ImageRoute(r, get_face_capture_image(r.id, state, fs))

GetPostureEventImage(r) ==
    /\ r.route = "posture-events-image"
    /\ ImageRoute(r, get_posture_event_image(r.id, state, fs))

\* the read completes and the image handler answers
ImageRead ==
    /\ pc = "read"
    /\ Reply(req, read_image(fs, target), [resp.trace EXCEPT !.read = TRUE])
    /\ UNCHANGED <<state, clock, fs, issued>>

(***************************************************************************)
(* What a client may send.                                                 *)
(***************************************************************************)
\* token strings at hand: the ones login returned, the same claims signed
\* with another key, and something that is no JWT
ClientTokens ==
    issued \cup { [t EXCEPT !.key = "forged"] : t \in issued } \cup { Garbage }

Pair(k, v) == [key |-> k, value |-> v]

Header(scheme, cred) == Some([scheme |-> scheme, cred |-> cred])

\* no header, "Bearer " and nothing else, another scheme, and a bearer token
Authorizations ==
    { None, Header("Bearer ", None) }
    \cup { Header("Basic ", Some(t)) : t \in issued }
    \cup { Header("Bearer ", Some(t)) : t \in ClientTokens }

\* no query, token=<t>, token=&token=<t>, and <t> under another key
Queries ==
    {<<>>}
    \cup { <<Pair("token", Some(t))>> : t \in issued \cup {Garbage} }
    \cup { <<Pair("token", None), Pair("token", Some(t))>> : t \in issued }
    \cup { <<Pair("limit", Some(t))>> : t \in issued }

LoginRequests ==
    { [BlankRequest EXCEPT !.route = "login", !.username = u, !.password = p] :
      u \in {"admin", "root", "eve"}, p \in {"studyguardian", "pw", "guess"} }

\* requests that differ in how they present a token
AuthProbes(route) ==
    { [BlankRequest EXCEPT !.route = route, !.authorization = h, !.query = q,
                           !.id = "f1"] :
      h \in Authorizations, q \in Queries }

\* requests with at most a token login returned, in the header
Bearers == {None} \cup { Header("Bearer ", Some(t)) : t \in issued }

LimitChoices == {None} \cup { Some(n) : n \in {-3, 0, 1, 2, 200, 201} }

GroupTagChoices ==
    {None} \cup { Some(g) : g \in { <<>>, <<" ">>, <<"g">>, <<" ", "g", " ">>, <<"x">> } }

FaceListRequests ==
    { [BlankRequest EXCEPT !.route = "face-captures", !.authorization = h,
                           !.limit = l, !.group_tag = g] :
      h \in Bearers, l \in LimitChoices, g \in GroupTagChoices }

PostureListRequests ==
    { [BlankRequest EXCEPT !.route = "posture-events", !.authorization = h,
                           !.limit = l, !.is_bad = b] :
      h \in Bearers, l \in LimitChoices, b \in {None, Some(TRUE), Some(FALSE)} }

ImageRequests(route) ==
    { [BlankRequest EXCEPT !.route = route, !.authorization = h, !.id = id] :
      h \in Bearers, id \in Ids }

(***************************************************************************)
(* Specifications.                                                         *)
(***************************************************************************)
\* authentication: every way of presenting a token, while time passes
NextAuth ==
    \/ Tick
    \/ \E r \in LoginRequests : Login(r)
    \/ \E r \in AuthProbes("face-captures") : ListFaceCaptures(r)
    \/ \E r \in AuthProbes("posture-events") : ListPostureEvents(r)
    \/ \E r \in AuthProbes("face-captures-image") : GetFaceCaptureImage(r)
    \/ \E r \in AuthProbes("posture-events-image") : GetPostureEventImage(r)
    \/ ImageRead
    \/ Deliver

SpecAuth == Init /\ [][NextAuth]_vars

\* image retrieval: every row of both tables, while the disk changes
NextMedia ==
    \/ FsChange
    \/ \E r \in LoginRequests : Login(r)
    \/ \E r \in ImageRequests("face-captures-image") : GetFaceCaptureImage(r)
    \/ \E r \in ImageRequests("posture-events-image") : GetPostureEventImage(r)
    \/ ImageRead
    \/ Deliver

SpecMedia == Init /\ [][NextMedia]_vars

\* listing: every limit and filter
NextList ==
    \/ \E r \in LoginRequests : Login(r)
    \/ \E r \in FaceListRequests : ListFaceCaptures(r)
    \/ \E r \in PostureListRequests : ListPostureEvents(r)
    \/ Deliver

SpecList == Init /\ [][NextList]_vars

(***************************************************************************)
(* Properties.                                                             *)
(***************************************************************************)
ProtectedRoutes ==
    {"face-captures", "face-captures-image", "posture-events", "posture-events-image"}

ImageRoutes == {"face-captures-image", "posture-events-image"}

\* a protected request has been answered
Answered == pc = "done" /\ req.route \in ProtectedRoutes

\* an image request has been answered by its handler
ImageAnswered == pc = "done" /\ req.route \in ImageRoutes /\ resp.trace.handler

\* the row an image request names, if the table has it
RequestedRow ==
    FetchById(IF req.route = "face-captures-image" THEN face_captures
              ELSE posture_events, req.id)

HasFrame == RequestedRow # None /\ RequestedRow[1].frame_path # None

\* the capture root is configured and resolves on the disk as it is now
RootResolves ==
    state.capture_root # None /\ canonicalize(fs, state.capture_root[1]) # None

CanonicalRoot == canonicalize(fs, state.capture_root[1])[1]

\* where the requested row's frame_path leads on the disk as it is now
FrameLocation ==
    canonicalize(fs, Join(AbsPath(CanonicalRoot), RequestedRow[1].frame_path[1]))

\* the row's frame_path resolves, through its '..' segments and symbolic
\* links, to a location outside the canonical capture root
EscapesRoot ==
    /\ RootResolves
    /\ HasFrame
    /\ FrameLocation # None
    /\ ~starts_with(FrameLocation[1], CanonicalRoot)

PresentsValidToken ==
    /\ extract_token(req) # None
    /\ validate_token(extract_token(req)[1], state.auth, resp.trace.at).ok

\* C2: on the four protected routes the handler runs, and the database or the
\* disk is touched, only if a token was extracted from the request and passed
\* validation; otherwise the answer is 401 and the handler never ran.  Login
\* runs without a token.
C2_HandlerOnlyAfterAuth ==
    /\ (req.route \in ProtectedRoutes
        /\ (resp.trace.handler \/ resp.trace.db \/ resp.trace.files))
          => PresentsValidToken
    /\ (Answered /\ ~PresentsValidToken)
          => /\ resp.http.status = 401
             /\ ~resp.trace.handler /\ ~resp.trace.db /\ ~resp.trace.files
    /\ (pc = "done" /\ req.route = "login")
          => resp.trace.handler /\ extract_token(req) = None

\* C2 witness: a protected handler ran for a token given in the query string.
C2_Witness ==
    /\ Answered
    /\ resp.trace.handler
    /\ req.authorization = None
    /\ resp.http.status = 200

\* a protected request presenting, in the header, the token login issued
PresentsIssued ==
    /\ Answered
    /\ HeaderToken(req) # None
    /\ HeaderToken(req)[1] \in issued

Accepted == resp.trace.stage = "ok" /\ resp.http.status # 401

ExpiryOf(t) == t.iat + SecondsPerMinute * Max(state.auth.session_minutes, 1)

\* C3 as claimed: an issued token expires max(session_minutes, 1) minutes
\* after issuance, is accepted up to expires_at and rejected at every instant
\* after it.
C3_RejectedRightAfterExpiry ==
    PresentsIssued =>
        LET t == HeaderToken(req)[1]
        IN  /\ t.exp = ExpiryOf(t)
            /\ Accepted <=> resp.trace.at <= t.exp

\* C3 as amended: an issued token expires max(session_minutes, 1) minutes
\* after issuance, is accepted at every instant up to expires_at + 60 seconds
\* (the leeway of Validation::default()) and rejected at every later instant.
C3_RejectedAfterExpiryPlusLeeway ==
    PresentsIssued =>
        LET t == HeaderToken(req)[1]
        IN  /\ t.exp = ExpiryOf(t)
            /\ Accepted <=> resp.trace.at <= t.exp + 60
            /\ ~Accepted => resp.http.status = 401

\* C3 witness: an issued token was accepted after its expires_at.
C3_Witness ==
    /\ PresentsIssued
    /\ Accepted
    /\ resp.trace.at > HeaderToken(req)[1].exp

\* C4: login answers with a token exactly when both the username and the
\* password equal the configured ones, and with 401 and no token otherwise;
\* the token's subject is the submitted username, and the response's
\* expires_at and username are the token's exp and subject.
C4_LoginIffCredentialsMatch ==
    (pc = "done" /\ req.route = "login") =>
        IF /\ req.username = state.auth.username
           /\ req.password = state.auth.password
        THEN /\ resp.http.status = 200
             /\ resp.http.kind = "login"
             /\ resp.http.payload.token.kind = "jwt"
             /\ resp.http.payload.token.sub = req.username
             /\ resp.http.payload.expires_at = resp.http.payload.token.exp
             /\ resp.http.payload.username = resp.http.payload.token.sub
             /\ issued = {resp.http.payload.token}
        ELSE /\ resp.http.status = 401
             /\ resp.http.kind = "error"
             /\ resp.http.payload = NoPayload

\* C4 witness: a login with the configured credentials got its token.
C4_Witness ==
    /\ pc = "done" /\ req.route = "login"
    /\ resp.http.status = 200
    /\ resp.http.payload.token \in issued

AuthFailures == {"missing", "malformed", "expired", "bad-signature"}

\* C5: whatever the stage at which authentication fails (no token, no JWT,
\* expired, bad signature), the caller gets the same status and the same
\* body: any two failing requests get equal responses.
C5_UniformUnauthorized ==
    (Answered /\ (~PresentsValidToken \/ resp.trace.stage \in AuthFailures))
        => resp.http = StatusOnly(401)

\* C5 witness: an expired token was turned down with that response.
C5_Witness ==
    /\ Answered
    /\ resp.trace.stage = "expired"
    /\ resp.http = StatusOnly(401)

\* a posture listing has been answered with its events
PostureListed ==
    pc = "done" /\ req.route = "posture-events" /\ resp.http.kind = "postures"

PostureRowOf(id) == CHOOSE r \in posture_events : r.id = id

\* C6: every posture event of a listing has image_url pointing at the face
\* capture endpoint of its face_capture_id when that is non-null (whether or
\* not the event has a frame_path of its own or the face capture exists), else
\* at its own posture endpoint when frame_path is non-null, else null.
C6_ImageUrlPriority ==
    PostureListed =>
        \A i \in 1..Len(resp.http.payload) :
            LET e   == resp.http.payload[i]
                row == PostureRowOf(e.id)
            IN  e.image_url =
                    IF row.face_capture_id # None
                    THEN Some(<<"api", "face-captures", row.face_capture_id[1], "image">>)
                    ELSE IF row.frame_path # None
                    THEN Some(<<"api", "posture-events", row.id, "image">>)
                    ELSE None

\* C6 witness: a listed event with both a face_capture_id and a frame_path of
\* its own points at the face capture endpoint.
C6_Witness ==
    /\ PostureListed
    /\ \E i \in 1..Len(resp.http.payload) :
          LET row == PostureRowOf(resp.http.payload[i].id)
          IN  /\ row.face_capture_id # None
              /\ row.frame_path # None
              /\ resp.http.payload[i].image_url[1][2] = "face-captures"

\* a list handler has answered
Listed ==
    /\ pc = "done"
    /\ req.route \in {"face-captures", "posture-events"}
    /\ resp.trace.handler

\* C7: the limit bound into a list query lies in 1..200: the requested value
\* when that lies in 1..200, 1 below, 200 above, and 40 (face captures) or 50
\* (posture events) when none is requested; no more rows than that come back.
C7_LimitClamped ==
    Listed =>
        LET eff == resp.trace.limit[1]
        IN  /\ resp.trace.limit # None
            /\ eff \in 1..200
            /\ req.limit = None =>
                  eff = IF req.route = "face-captures" THEN 40 ELSE 50
            /\ req.limit # None =>
                  /\ req.limit[1] \in 1..200 => eff = req.limit[1]
                  /\ req.limit[1] < 1 => eff = 1
                  /\ req.limit[1] > 200 => eff = 200
            /\ Len(resp.http.payload) <= eff

\* C7 witness: a requested limit of 0 became 1 and one row came back.
C7_Witness ==
    /\ Listed
    /\ req.limit = Some(0)
    /\ resp.trace.limit = Some(1)
    /\ Len(resp.http.payload) = 1

\* the requested row's file is missing: its path does not resolve when the
\* handler sanitizes it, or the sanitized path cannot be read any more
FrameMissing ==
    /\ RootResolves
    /\ HasFrame
    /\ \/ ~resp.trace.read /\ FrameLocation = None
       \/ resp.trace.read /\ ReadFile(fs, resp.trace.sanitize[1].path) = None

\* C8 as claimed: an image request whose row names a file that is not on the
\* disk, or whose path cannot be canonicalized, is answered 404, whether the
\* file is missing when the path is sanitized or vanishes before the read.
C8_MissingFileIsNotFound ==
    (ImageAnswered /\ FrameMissing) => resp.http.status = 404

\* C9 as claimed: an authenticated image request for an id without a row is
\* answered 404 (not found), and one for a row with a null frame_path 404 (no
\* associated frame), under every configuration and before any file access.
C9_NotFoundInEveryConfiguration ==
    ImageAnswered =>
        /\ RequestedRow = None =>
              /\ resp.http.status = 404
              /\ resp.http.message \in {"face capture not found",
                                        "posture event not found"}
              /\ ~resp.trace.files
        /\ (RequestedRow # None /\ RequestedRow[1].frame_path = None) =>
              /\ resp.http.status = 404
              /\ resp.http.message \in {"face capture has no associated frame path",
                                        "posture event has no associated frame path"}
              /\ ~resp.trace.files

\* C9 as amended: with a capture root configured, an authenticated image
\* request for an id without a row is answered 404 (not found) and one for a
\* row with a null frame_path 404 (no associated frame), both before any file
\* access; with no capture root configured every authenticated image request
\* is answered 500 before the row is looked up.
C9_NotFoundWhenRootConfigured ==
    ImageAnswered =>
        /\ (state.capture_root # None /\ RequestedRow = None) =>
              /\ resp.http.status = 404
              /\ resp.http.message =
                    IF req.route = "face-captures-image"
                    THEN "face capture not found" ELSE "posture event not found"
              /\ resp.trace.db /\ ~resp.trace.files
        /\ (state.capture_root # None /\ RequestedRow # None
            /\ RequestedRow[1].frame_path = None) =>
              /\ resp.http.status = 404
              /\ resp.http.message =
                    IF req.route = "face-captures-image"
                    THEN "face capture has no associated frame path"
                    ELSE "posture event has no associated frame path"
              /\ resp.trace.db /\ ~resp.trace.files
        /\ state.capture_root = None =>
              /\ resp.http.status = 500
              /\ ~resp.trace.db /\ ~resp.trace.files

\* C9 witness: a row with a null frame_path was asked for and answered 404.
C9_Witness ==
    /\ ImageAnswered
    /\ state.capture_root # None
    /\ RequestedRow # None
    /\ RequestedRow[1].frame_path = None
    /\ resp.http.status = 404

\* the request carries a non-empty "Authorization: Bearer <token>"
BearerPresent ==
    /\ req.authorization # None
    /\ req.authorization[1].scheme = "Bearer "
    /\ req.authorization[1].cred # None

\* the first non-empty token=... of the query string
RECURSIVE FirstTokenParam(_)
FirstTokenParam(q) ==
    IF q = <<>> THEN None
    ELSE IF q[1].key = "token" /\ q[1].value # None THEN q[1].value
    ELSE FirstTokenParam(Tail(q))

TokenValidAt(t, at) ==
    t.kind = "jwt" /\ t.key = state.auth.secret /\ at <= t.exp + 60

\* C10: the token that is validated is the bearer token of the Authorization
\* header whenever there is a non-empty one, whatever the query string says
\* (an invalid header token with a valid query token is turned down); the
\* query's token parameter is used only without a usable bearer token; with
\* neither there is no token.
C10_HeaderBeforeQuery ==
    Answered =>
        LET used == IF BearerPresent THEN req.authorization[1].cred
                    ELSE FirstTokenParam(req.query)
        IN  /\ resp.trace.token = used
            /\ used = None => resp.trace.stage = "missing"
            /\ used # None =>
                  (resp.http.status # 401 <=> TokenValidAt(used[1], resp.trace.at))

\* C10 witness: an invalid header token and a valid query token: 401.
C10_Witness ==
    /\ Answered
    /\ BearerPresent
    /\ ~TokenValidAt(req.authorization[1].cred[1], resp.trace.at)
    /\ FirstTokenParam(req.query) # None
    /\ TokenValidAt(FirstTokenParam(req.query)[1], resp.trace.at)
    /\ resp.http.status = 401

ErrorStatuses == {400, 401, 404, 500}

\* C11 as claimed: a protected request with an expired token is answered 401
\* with a body {"message": <cause>}, and every error answer of the API (400,
\* 401, 404, 500) carries a body of that shape.
C11_ErrorBodyHasMessage ==
    /\ (Answered /\ resp.trace.stage = "expired")
          => /\ resp.http.status = 401
             /\ resp.http.kind = "error"
             /\ resp.http.message # ""
    /\ (pc = "done" /\ resp.http.status \in ErrorStatuses)
          => /\ resp.http.kind = "error"
             /\ resp.http.message # ""

AllBlank(text) == \A i \in 1..Len(text) : text[i] = " "

\* the rows of the listed table that pass the request's filter
WantedRows ==
    IF req.route = "face-captures"
    THEN IF req.group_tag = None \/ AllBlank(req.group_tag[1])
         THEN face_captures
         ELSE { r \in face_captures : r.group_tag = Trim(req.group_tag[1]) }
    ELSE IF req.is_bad = None
         THEN posture_events
         ELSE { r \in posture_events : r.is_bad = req.is_bad[1] }

Min(a, b) == IF a <= b THEN a ELSE b

\* C12: a list query returns exactly min(effective limit, number of matching
\* rows) rows, all of them distinct rows that pass the filter (group_tag
\* equal to the trimmed requested one, an absent, empty or blank one meaning
\* no filter; is_bad equal to the requested flag, an absent one meaning both),
\* in descending order of timestamp, and no matching row left out is more
\* recent than a returned one.
C12_MostRecentMatchingRows ==
    Listed =>
        LET out      == resp.http.payload
            returned == { out[i].id : i \in 1..Len(out) }
        IN  /\ Len(out) = Min(resp.trace.limit[1], Cardinality(WantedRows))
            /\ \A i \in 1..Len(out) :
                  \E r \in WantedRows :
                     /\ r.id = out[i].id
                     /\ r.timestamp = out[i].timestamp
                     /\ req.route = "face-captures" => r.group_tag = out[i].group_tag
                     /\ req.route = "posture-events" => r.is_bad = out[i].is_bad
            /\ \A i, j \in 1..Len(out) :
                  i < j => /\ out[i].id # out[j].id
                           /\ out[i].timestamp >= out[j].timestamp
            /\ \A r \in WantedRows :
                  r.id \notin returned =>
                     \A i \in 1..Len(out) : out[i].timestamp >= r.timestamp

\* C12 witness: a group_tag sent with blanks around it matched three rows and
\* a limit of 2 returned the two most recent of them.
C12_Witness ==
    /\ Listed
    /\ req.route = "face-captures"
    /\ req.group_tag = Some(<<" ", "g", " ">>)
    /\ req.limit = Some(2)
    /\ Cardinality(WantedRows) = 3
    /\ Len(resp.http.payload) = 2
    /\ resp.http.payload[1].id = "f1"
    /\ resp.http.payload[2].id = "f2"

====
